---- MODULE Spec2Model ----
(***************************************************************************)
(* ElGamal encryption over a short Weierstrass curve y^2 = x^3 + a*x + b   *)
(* (src/src/modular_numbers.rs, elliptic_point.rs, elliptic_curve.rs,      *)
(* el_gamal.rs, main.rs).                                                  *)
(*                                                                         *)
(* The library is a set of pure functions.  Every function is an operator  *)
(* that computes what the Rust code computes; every layer has a harness    *)
(* variable holding the inputs and the result of the last call, and a      *)
(* specification whose actions call the functions:                         *)
(*   mn  ModNum operations                        SpecModNum               *)
(*   sq  ModNum::sqrt, one step per loop turn     SpecSqrt, SpecSqrtFair   *)
(*   eg  ElGamal::new, encrypt, decrypt           Spec                     *)
(*   en  encrypt's encode, one step per turn      SpecEncode               *)
(*   bl  the pair of one message point            SpecBlind                *)
(*   gp  the group law on small curves            SpecGroup                *)
(* A call that panics or never returns is a result [fail |-> reason].      *)
(***************************************************************************)
EXTENDS Integers, Sequences, FiniteSets, TLC

VARIABLES mn, sq, eg, en, bl, gp

vars == <<mn, sq, eg, en, bl, gp>>

(***************************************************************************)
(* Bounds of the model.                                                    *)
(***************************************************************************)
\* ModNum harness: fields 0..MaxField, raw values 0..MaxValue, exponents 0..MaxExp
MaxField == 13
MaxValue == 14
MaxExp == 5
\* sqrt machine: fields 1..MaxSqrtField (and 56, the smallest field whose
\* refinement loop reaches its subtraction)
MaxSqrtField == 17
\* caps of the two counters that sqrt's loops increase without a limit
MaxE == 8
MaxN == 64
\* steps after which the operator ModNum_sqrt reports that sqrt has not returned
SqrtFuel == 70
\* the largest field of the curves of the group-law harness, the largest
\* exponent of pow there
MaxGroupField == 7
MaxK == 16

(***************************************************************************)
(* BigUint arithmetic (num_bigint).  BigUint is unbounded; TLC's integers  *)
(* are 32-bit, so a product that is reduced right away is formed digit by  *)
(* digit (base 64), which is exact for moduli below 2^24.                  *)
(***************************************************************************)
Fail(reason) == [fail |-> reason]

IsFail(r) == "fail" \in DOMAIN r

IsModNum(r) == DOMAIN r = {"value", "field"}

\* (a * b) % f
RECURSIVE MulMod(_, _, _)
MulMod(a, b, f) ==
    IF b = 0 THEN 0
    ELSE (MulMod(a % f, b \div 64, f) * 64 + (a % f) * (b % 64)) % f

\* a * b > c
ProdGreater(a, b, c) == IF a = 0 \/ b = 0 THEN FALSE ELSE (c \div a) < b

\* BigUint::modpow: base^exp mod modulus (0 when the modulus is 1), two bits
\* of the exponent at a time
RECURSIVE modpow(_, _, _)
modpow(base, exp, modulus) ==
    IF exp = 0 THEN 1 % modulus
    ELSE LET h == modpow(base, exp \div 4, modulus)
             h2 == MulMod(h, h, modulus)
             h4 == MulMod(h2, h2, modulus)
             b1 == base % modulus
             b2 == MulMod(b1, b1, modulus)
         IN  IF h = 0 THEN 0
             ELSE CASE exp % 4 = 0 -> h4
                    [] exp % 4 = 1 -> MulMod(h4, b1, modulus)
                    [] exp % 4 = 2 -> MulMod(h4, b2, modulus)
                    [] exp % 4 = 3 -> MulMod(h4, MulMod(b2, b1, modulus), modulus)

\* BigUint::bits: the number of significant bits, 0 for 0
RECURSIVE bits(_)
bits(n) == IF n = 0 THEN 0 ELSE 1 + bits(n \div 2)

(***************************************************************************)
(* ModNum (src/src/modular_numbers.rs): [value, field].                    *)
(***************************************************************************)
ModNum_new(value, field) ==
    IF field = 0 THEN Fail("InvalidField")
    ELSE [value |-> value % field, field |-> field]

ModNum_add(self, other) ==
    IF self.field # other.field THEN Fail("FieldMismatch")
    ELSE [value |-> (self.value + other.value) % self.field, field |-> self.field]

ModNum_mul(self, other) ==
    IF self.field # other.field THEN Fail("FieldMismatch")
    ELSE [value |-> MulMod(self.value, other.value, self.field), field |-> self.field]

ModNum_add_inv(self) ==
    IF self.value > self.field THEN Fail("SubtractOverflow")
    ELSE [value |-> (self.field - self.value) % self.field, field |-> self.field]

\* The loop of mul_inv, lines 87-103, from the state st of its four variables:
\* t_zero and t_one at the break, or a failure when div_mod_floor divides by
\* zero.
RECURSIVE mul_inv_loop(_, _)
mul_inv_loop(st, mul_field) ==
    IF st.r_one = 0 THEN Fail("DivideByZero")
    ELSE LET q0 == st.r_zero \div st.r_one
             q1 == st.r_zero % st.r_one
             \* test_val = q.0 * t_one
             t_temp == IF ProdGreater(q0, st.t_one, st.t_zero)
                       THEN st.t_zero + (mul_field - MulMod(q0, st.t_one, mul_field))
                       ELSE st.t_zero - q0 * st.t_one
         IN  IF q1 = 0 THEN [t_zero |-> st.t_one, t_one |-> t_temp]
             ELSE mul_inv_loop([r_zero |-> st.r_one, r_one |-> q1,
                                t_zero |-> st.t_one, t_one |-> t_temp], mul_field)

\* lines 82-85: the variables before the loop
mul_inv_enter(self) ==
    [r_zero |-> self.field, r_one |-> self.value, t_zero |-> 0, t_one |-> 1]

\* a plausible slip: the loop's other coefficient is returned
ModNum_mul_inv_t_one(self) ==
    LET ts == mul_inv_loop(mul_inv_enter(self), self.field)
    IN  IF IsFail(ts) THEN ts ELSE [value |-> ts.t_one, field |-> self.field]

ModNum_mul_inv(self) ==
    LET ts == mul_inv_loop(mul_inv_enter(self), self.field)
    IN  IF IsFail(ts) THEN ts ELSE [value |-> ts.t_zero, field |-> self.field]

RECURSIVE ModNum_pow(_, _)
ModNum_pow(self, exp) ==
    IF exp = 0 THEN [value |-> 1, field |-> self.field]
    ELSE IF exp = 1 THEN [value |-> self.value, field |-> self.field]
    ELSE IF exp % 2 = 0
         THEN LET z == ModNum_pow(self, exp \div 2) IN ModNum_mul(z, z)
         ELSE LET z == ModNum_pow(self, (exp - 1) \div 2)
              IN  ModNum_mul(ModNum_mul(z, z), self)

ModNum_clone(self) == ModNum_new(self.value, self.field)

(***************************************************************************)
(* ModNum::sqrt, lines 138-224, as a machine: one step per loop turn.      *)
(***************************************************************************)
\* the upper end of `for i in 0..256`
SqrtForBound == 256

legendre_symbol(value, field) ==
    LET leg_sym == modpow(value, (field - 1) \div 2, field)
    IN  IF leg_sym = field - 1 THEN -1
        ELSE IF leg_sym = 1 THEN 1
        ELSE 2

sqrt_enter(self) ==
    [pc |-> "start", value |-> self.value, field |-> self.field,
     s |-> 0, e |-> 0, n |-> 0, xenon |-> 0, baby |-> 0, garnish |-> 0,
     t |-> 0, m |-> 0, i |-> 0, ret |-> 0]

sqrt_return(st, v) == [st EXCEPT !.pc = "returned", !.ret = v % st.field]

\* lines 162-180
sqrt_start(st) ==
    IF legendre_symbol(st.value, st.field) # 1 THEN sqrt_return(st, 0)
    ELSE IF st.value = 0 THEN sqrt_return(st, 0)
    ELSE IF st.field % 4 = 3
         THEN [st EXCEPT !.pc = "returned",
                         !.ret = modpow(st.value, (st.field + 1) \div 4, st.field)]
    ELSE [st EXCEPT !.pc = "factor", !.s = st.field - 1, !.e = 1]

\* lines 182 and 186: the test of `while s.mod_floor(2) == 0`
sqrt_factor(st) ==
    IF st.s % 2 = 0
    THEN [st EXCEPT !.pc = "factor_body"]
    ELSE [st EXCEPT !.pc = "find_n", !.n = 2]

\* lines 183-184: the body of the loop
sqrt_factor_body(st) == [st EXCEPT !.pc = "factor", !.s = st.s % 2, !.e = st.e + 1]

\* lines 189-194: one turn of `while legendre_symbol(&n, field) != -1`
sqrt_find_n(st) ==
    IF legendre_symbol(st.n, st.field) # -1
    THEN [st EXCEPT !.n = st.n + 1]
    ELSE [st EXCEPT !.pc = "outer",
                    !.xenon = modpow(st.value, (st.s + 1) \div 2, st.field),
                    !.baby = modpow(st.value, st.s, st.field),
                    !.garnish = modpow(st.n, st.s, st.field)]

\* lines 196-198: one turn of `loop`
sqrt_outer(st) == [st EXCEPT !.pc = "inner", !.t = st.baby, !.m = 0, !.i = 0]

\* lines 200-222: one turn of `for i in 0..256`
sqrt_inner(st) ==
    IF st.i >= SqrtForBound THEN [st EXCEPT !.pc = "outer"]
    ELSE IF st.t = 1 THEN [st EXCEPT !.pc = "outer"]
    ELSE LET t2 == modpow(st.t, 2, st.field)
             m2 == st.m + 1
         IN  IF st.i = SqrtForBound THEN [st EXCEPT !.pc = "panicked"]
             ELSE IF m2 = 0 THEN sqrt_return(st, st.xenon)
             \* &e - &m - &big(1) on BigUint
             ELSE IF st.e < m2 + 1 THEN [st EXCEPT !.pc = "panicked", !.t = t2, !.m = m2]
             ELSE LET garnishes == modpow(st.garnish,
                                          modpow(2, st.e - m2 - 1, st.field), st.field)
                      garnish2 == modpow(garnishes, 2, st.field)
                  IN  [st EXCEPT !.t = t2, !.m = m2, !.garnish = garnish2,
                                 !.xenon = MulMod(st.xenon, garnishes, st.field),
                                 !.baby = MulMod(st.baby, garnish2, st.field),
                                 !.e = m2, !.i = st.i + 1]

sqrt_step(st) ==
    CASE st.pc = "start" -> sqrt_start(st)
      [] st.pc = "factor" -> sqrt_factor(st)
      [] st.pc = "factor_body" -> sqrt_factor_body(st)
      [] st.pc = "find_n" -> sqrt_find_n(st)
      [] st.pc = "outer" -> sqrt_outer(st)
      [] st.pc = "inner" -> sqrt_inner(st)
      [] OTHER -> st

SqrtDone(st) == st.pc \in {"returned", "panicked"}

RECURSIVE sqrt_run(_, _)
sqrt_run(st, fuel) ==
    IF SqrtDone(st) \/ fuel = 0 THEN st ELSE sqrt_run(sqrt_step(st), fuel - 1)

\* what the caller of sqrt gets from the last state of the call
sqrt_result(fin, field) ==
    IF fin.pc = "returned" THEN [value |-> fin.ret, field |-> field]
    ELSE IF fin.pc = "panicked" THEN Fail("SubtractOverflow")
    ELSE Fail("Hang")

\* sqrt as a function: its value, or the way it fails to return one
ModNum_sqrt(self) == sqrt_result(sqrt_run(sqrt_enter(self), SqrtFuel), self.field)

(***************************************************************************)
(* EllipticType (src/src/elliptic_point.rs): a point [kind, x, y] or the   *)
(* identity [kind, field].  EllipticCurve (src/src/elliptic_curve.rs):     *)
(* [a, b, init_point].  A failed operand makes the call that uses it fail: *)
(* the panic has ended the computation.                                    *)
(***************************************************************************)
Inf_new(field) == [kind |-> "Infinity", field |-> field]

IsPoint(p) == ~IsFail(p) /\ p.kind = "Point"

IsInfinity(p) == ~IsFail(p) /\ p.kind = "Infinity"

Point_new(x, y, curve_a, curve_b) ==
    IF x.field # y.field \/ x.field # curve_a.field \/ x.field # curve_b.field
    THEN Fail("FieldMismatch")
    ELSE LET test_val == ModNum_add(ModNum_add(ModNum_pow(x, 3), ModNum_mul(curve_a, x)),
                                    curve_b)
         IN  IF ModNum_pow(y, 2) # test_val THEN Fail("InvalidPoint")
             ELSE [kind |-> "Point", x |-> x, y |-> y]

EllipticType_field(self) == IF self.kind = "Infinity" THEN self.field ELSE self.x.field

EllipticType_clone(self) ==
    IF self.kind = "Infinity" THEN Inf_new(self.field)
    ELSE [kind |-> "Point", x |-> ModNum_clone(self.x), y |-> ModNum_clone(self.y)]

EllipticCurve_new(a, b, init_point) ==
    IF a.field # b.field \/ a.field # EllipticType_field(init_point)
    THEN Fail("FieldMismatch")
    ELSE [a |-> a, b |-> b, init_point |-> init_point]

EllipticCurve_field(curve) == curve.a.field

\* lines 134-142: the new point from the slope
group_op_slope(left, right, slope) ==
    LET new_x == ModNum_add(ModNum_add(ModNum_pow(slope, 2), ModNum_add_inv(left.x)),
                            ModNum_add_inv(right.x))
        new_y == ModNum_add(ModNum_add_inv(left.y),
                            ModNum_add_inv(ModNum_mul(slope,
                                ModNum_add(new_x, ModNum_add_inv(left.x)))))
    IN  [kind |-> "Point", x |-> new_x, y |-> new_y]

\* a plausible slip: the tangent's slope without the curve's a, 3x^2/(2y)
group_op_double_without_a(self, other, curve) ==
    LET inv == ModNum_mul_inv(ModNum_mul(ModNum_new(2, self.x.field), self.y))
    IN  IF IsFail(inv) THEN inv
        ELSE group_op_slope(self, other,
                 ModNum_mul(ModNum_mul(ModNum_new(3, self.x.field),
                                       ModNum_pow(self.x, 2)),
                            inv))

\* lines 120-127: the tangent at self, slope (3x^2+a)/(2y)
group_op_double(self, other, curve) ==
    LET inv == ModNum_mul_inv(ModNum_mul(ModNum_new(2, self.x.field), self.y))
    IN  IF IsFail(inv) THEN inv
        ELSE group_op_slope(self, other,
                 ModNum_mul(ModNum_add(ModNum_mul(ModNum_new(3, self.x.field),
                                                  ModNum_pow(self.x, 2)),
                                       curve.a),
                            inv))

\* lines 128-132: the chord, slope (right.y-left.y)/(right.x-left.x)
group_op_chord(self, other) ==
    LET inv == ModNum_mul_inv(ModNum_add(other.x, ModNum_add_inv(self.x)))
    IN  IF IsFail(inv) THEN inv
        ELSE group_op_slope(self, other,
                 ModNum_mul(ModNum_add(other.y, ModNum_add_inv(self.y)), inv))

\* a plausible slip: line 117 compares the two y, not y with -y
group_op_equal_y(self, other, curve) ==
    CASE IsFail(self) -> self
      [] ~IsFail(self) /\ IsFail(other) -> other
      [] ~IsFail(self) /\ ~IsFail(other) ->
         CASE EllipticType_field(self) # EllipticType_field(other)
                  \/ EllipticType_field(self) # curve.a.field -> Fail("FieldMismatch")
           [] OTHER ->
              CASE self.kind = "Infinity" -> EllipticType_clone(other)
                [] self.kind = "Point" /\ other.kind = "Infinity" ->
                       [kind |-> "Point", x |-> ModNum_clone(self.x),
                        y |-> ModNum_clone(self.y)]
                [] self.kind = "Point" /\ other.kind = "Point" ->
                       IF self.x = other.x
                       THEN IF self.y = other.y
                            THEN Inf_new(self.x.field)
                            ELSE group_op_double(self, other, curve)
                       ELSE group_op_chord(self, other)

\* a plausible slip: line 102 returns self, not other
group_op_returns_self(self, other, curve) ==
    CASE IsFail(self) -> self
      [] ~IsFail(self) /\ IsFail(other) -> other
      [] ~IsFail(self) /\ ~IsFail(other) ->
         CASE EllipticType_field(self) # EllipticType_field(other)
                  \/ EllipticType_field(self) # curve.a.field -> Fail("FieldMismatch")
           [] OTHER ->
              CASE self.kind = "Infinity" -> EllipticType_clone(self)
                [] self.kind = "Point" /\ other.kind = "Infinity" ->
                       [kind |-> "Point", x |-> ModNum_clone(self.x),
                        y |-> ModNum_clone(self.y)]
                [] self.kind = "Point" /\ other.kind = "Point" ->
                       IF self.x = other.x
                       THEN IF self.y = ModNum_add_inv(other.y)
                            THEN Inf_new(self.x.field)
                            ELSE group_op_double(self, other, curve)
                       ELSE group_op_chord(self, other)

\* lines 90-147
group_op(self, other, curve) ==
    CASE IsFail(self) -> self
      [] ~IsFail(self) /\ IsFail(other) -> other
      [] ~IsFail(self) /\ ~IsFail(other) ->
         CASE EllipticType_field(self) # EllipticType_field(other)
                  \/ EllipticType_field(self) # curve.a.field -> Fail("FieldMismatch")
           [] OTHER ->
              CASE self.kind = "Infinity" -> EllipticType_clone(other)
                [] self.kind = "Point" /\ other.kind = "Infinity" ->
                       [kind |-> "Point", x |-> ModNum_clone(self.x),
                        y |-> ModNum_clone(self.y)]
                [] self.kind = "Point" /\ other.kind = "Point" ->
                       IF self.x = other.x
                       THEN IF self.y = ModNum_add_inv(other.y)
                            THEN Inf_new(self.x.field)
                            ELSE group_op_double(self, other, curve)
                       ELSE group_op_chord(self, other)

\* a plausible slip: the inverse keeps y
group_inv_keeps_y(self) ==
    IF IsFail(self) THEN self
    ELSE IF self.kind = "Infinity" THEN Inf_new(self.field)
    ELSE [kind |-> "Point", x |-> ModNum_clone(self.x), y |-> ModNum_clone(self.y)]

group_inv(self) ==
    IF IsFail(self) THEN self
    ELSE IF self.kind = "Infinity" THEN Inf_new(self.field)
    ELSE IF self.y.value = 0
         THEN [kind |-> "Point", x |-> ModNum_clone(self.x), y |-> ModNum_clone(self.y)]
         ELSE [kind |-> "Point", x |-> ModNum_clone(self.x), y |-> ModNum_add_inv(self.y)]

\* a plausible slip: the odd branch, line 197, leaves out .group_op(self)
RECURSIVE EllipticType_pow_even_only(_, _, _)
EllipticType_pow_even_only(self, exp, curve) ==
    CASE IsFail(self) -> self
      [] IsInfinity(self) -> Inf_new(self.field)
      [] IsPoint(self) /\ exp = 0 -> Inf_new(self.x.field)
      [] IsPoint(self) /\ exp = 1 ->
             [kind |-> "Point", x |-> ModNum_clone(self.x), y |-> ModNum_clone(self.y)]
      [] IsPoint(self) /\ exp > 1 ->
             LET temp == EllipticType_pow_even_only(self, exp \div 2, curve)
             IN  IF IsFail(temp) THEN temp ELSE group_op(temp, temp, curve)

RECURSIVE EllipticType_pow(_, _, _)
EllipticType_pow(self, exp, curve) ==
    CASE IsFail(self) -> self
      [] IsInfinity(self) -> Inf_new(self.field)
      [] IsPoint(self) /\ exp = 0 -> Inf_new(self.x.field)
      [] IsPoint(self) /\ exp = 1 ->
             [kind |-> "Point", x |-> ModNum_clone(self.x), y |-> ModNum_clone(self.y)]
      [] IsPoint(self) /\ exp > 1 /\ exp % 2 = 0 ->
             LET temp == EllipticType_pow(self, exp \div 2, curve)
             IN  IF IsFail(temp) THEN temp ELSE group_op(temp, temp, curve)
      [] IsPoint(self) /\ exp > 1 /\ exp % 2 = 1 ->
             LET temp == EllipticType_pow(self, (exp - 1) \div 2, curve)
             IN  IF IsFail(temp) THEN temp
                 ELSE group_op(group_op(temp, temp, curve), self, curve)

(***************************************************************************)
(* ElGamal (src/src/el_gamal.rs).  A text is the sequence of its UTF-8     *)
(* bytes.  A ciphertext is [pairs |-> sequence of [c_0, c_1]]; a decrypted *)
(* message is [text |-> bytes].                                            *)
(***************************************************************************)
W == 256

\* BigUint::from_bytes_le
RECURSIVE from_bytes_le(_)
from_bytes_le(bytes) ==
    IF bytes = <<>> THEN 0 ELSE Head(bytes) + 256 * from_bytes_le(Tail(bytes))

\* BigUint::to_bytes_le: the bytes up to the most significant one, [0] for 0
RECURSIVE to_bytes_le(_)
to_bytes_le(n) ==
    IF n < 256 THEN <<n>> ELSE <<n % 256>> \o to_bytes_le(n \div 256)

\* a continuation byte 0x80..0xBF
IsCont(b) == 128 <= b /\ b <= 191

\* String::from_utf8 accepts the bytes (well-formed UTF-8, Unicode table 3-7)
RECURSIVE from_utf8_ok(_)
from_utf8_ok(bytes) ==
    IF bytes = <<>> THEN TRUE
    ELSE LET b0 == bytes[1]
             len == Len(bytes)
             rest(k) == SubSeq(bytes, k + 1, len)
         IN  IF b0 <= 127 THEN from_utf8_ok(rest(1))
             ELSE IF 194 <= b0 /\ b0 <= 223
                  THEN len >= 2 /\ IsCont(bytes[2]) /\ from_utf8_ok(rest(2))
             ELSE IF 224 <= b0 /\ b0 <= 239
                  THEN /\ len >= 3
                       /\ IsCont(bytes[2]) /\ IsCont(bytes[3])
                       /\ (b0 = 224 => bytes[2] >= 160)
                       /\ (b0 = 237 => bytes[2] <= 159)
                       /\ from_utf8_ok(rest(3))
             ELSE IF 240 <= b0 /\ b0 <= 244
                  THEN /\ len >= 4
                       /\ IsCont(bytes[2]) /\ IsCont(bytes[3]) /\ IsCont(bytes[4])
                       /\ (b0 = 240 => bytes[2] >= 144)
                       /\ (b0 = 244 => bytes[2] <= 143)
                       /\ from_utf8_ok(rest(4))
             ELSE FALSE

\* lines 289-291
calc_y(x, a, b) ==
    ModNum_sqrt(ModNum_add(ModNum_add(ModNum_pow(x, 3), ModNum_mul(a, x)), b))

\* lines 225-226: the candidate x of the turn with this counter
encode_x(text, curve, counter) ==
    ModNum_new(W * text + counter, EllipticCurve_field(curve))

\* line 227
encode_y(text, curve, counter) ==
    calc_y(encode_x(text, curve, counter), curve.a, curve.b)

\* lines 228-229: the turn with this y leaves the loop (y is not 0), or never
\* ends because sqrt does not return
encode_stops(y) == IsFail(y) \/ y.value # 0

\* line 229: what the turn that leaves the loop returns
encode_return(x, y, curve) ==
    IF IsFail(y) THEN y ELSE Point_new(x, y, curve.a, curve.b)

\* the counter of the first turn that leaves the loop, ys[c] being the y of
\* the turn with the counter c
encode_first(ys) ==
    CHOOSE c \in DOMAIN ys : /\ encode_stops(ys[c])
                             /\ \A d \in 0..(c - 1) : ~encode_stops(ys[d])

\* lines 224-238, from the y of every turn
encode_from(ys, text, curve) ==
    IF \E c \in DOMAIN ys : encode_stops(ys[c])
    THEN encode_return(encode_x(text, curve, encode_first(ys)), ys[encode_first(ys)],
                       curve)
    ELSE Fail("EncodingExhausted")

\* lines 222-239: the turns run with counter = 0, 1, ... while y is 0; the
\* test `counter > W` after the increment lets the turn with counter = W run
\* and panics after it
encode(text, curve) ==
    encode_from([counter \in 0..W |-> encode_y(text, curve, counter)], text, curve)

\* lines 228-237: the end of the turn of the call in state st with this x, y
encode_turn_end(st, x, y) ==
    IF encode_stops(y)
    THEN [st EXCEPT !.pc = IF IsFail(encode_return(x, y, st.curve))
                           THEN "panicked" ELSE "returned",
                    !.point = encode_return(x, y, st.curve)]
    ELSE IF st.counter + 1 > W
         THEN [st EXCEPT !.pc = "panicked", !.counter = st.counter + 1,
                         !.point = Fail("EncodingExhausted")]
         ELSE [st EXCEPT !.counter = st.counter + 1]

\* lines 224-238: one turn of encode's loop, from the state st of the call
encode_turn(st) ==
    encode_turn_end(st, encode_x(st.text, st.curve, st.counter),
                    encode_y(st.text, st.curve, st.counter))

\* line 262
chunk_size(curve) == bits(EllipticCurve_field(curve) \div 256) \div 8

\* lines 243-255, for n > 0 (step_by(0) panics): the chunks as integers
split(message, n) ==
    LET len == Len(message)
    IN  [j \in 1..((len + n - 1) \div n) |->
            LET i == (j - 1) * n
            IN  IF i + n > len - 1
                THEN from_bytes_le(SubSeq(message, i + 1, len))
                ELSE from_bytes_le(SubSeq(message, i + 1, i + n))]

\* the first failure among the elements of a sequence, or none
FirstFail(seq) ==
    IF \E j \in DOMAIN seq : IsFail(seq[j])
    THEN LET j == CHOOSE k \in DOMAIN seq :
                     IsFail(seq[k]) /\ \A l \in 1..(k - 1) : ~IsFail(seq[l])
         IN  seq[j]
    ELSE [none |-> TRUE]

\* lines 271-283: the pair of one message point, with the drawn scalar s
encrypt_point(point, s, public_key, curve) ==
    [c_0 |-> EllipticType_pow(curve.init_point, s, curve),
     c_1 |-> group_op(EllipticType_pow(public_key, s, curve), point, curve)]

\* lines 264-267
encode_list(message_list, curve) ==
    [j \in DOMAIN message_list |-> encode(message_list[j], curve)]

\* the panic of a pair, if one of its points is one
pair_fail(pair) == IF IsFail(pair.c_0) THEN pair.c_0 ELSE pair.c_1

\* line 285: the pairs, or the first panic of the loop that makes them
encrypt_pairs(pairs) ==
    IF IsFail(FirstFail([j \in DOMAIN pairs |-> pair_fail(pairs[j])]))
    THEN FirstFail([j \in DOMAIN pairs |-> pair_fail(pairs[j])])
    ELSE [pairs |-> pairs]

\* lines 268-285, after the first loop has encoded every chunk
encrypt_points(point_mes_list, ss, public_key, curve) ==
    IF IsFail(FirstFail(point_mes_list)) THEN FirstFail(point_mes_list)
    ELSE encrypt_pairs([j \in DOMAIN point_mes_list |->
                           encrypt_point(point_mes_list[j], ss[j], public_key, curve)])

\* lines 216-286; ss[j] is the scalar that rng.gen_biguint_range returns for
\* the j-th point, in [field / (2 * W), field / W)
encrypt(public_key, curve, plain_text, ss) ==
    IF chunk_size(curve) = 0 THEN Fail("StepByZero")
    ELSE encrypt_points(encode_list(split(plain_text, chunk_size(curve)), curve),
                        ss, public_key, curve)

\* lines 190-201: the text of the chunk x
decode_chunk(temp_m) ==
    IF from_utf8_ok(temp_m) THEN [text |-> temp_m] ELSE Fail("DecodeFailure")

\* lines 184-203
decode(m) ==
    IF IsFail(m) THEN m
    ELSE IF m.kind = "Infinity" THEN Fail("DecodeFailure")
    ELSE decode_chunk(to_bytes_le(m.x.value \div W))

\* line 209: the message point of one pair
decrypt_pair(pair, private_key, curve) ==
    group_op(EllipticType_pow(group_inv(pair.c_0), private_key, curve), pair.c_1, curve)

RECURSIVE decrypt_loop(_, _, _, _, _)
\* lines 210-211: the message of the j-th pair is appended, or its panic ends
\* decrypt
decrypt_push(message, private_key, curve, pairs, j, plain_text) ==
    IF IsFail(message) THEN message
    ELSE decrypt_loop(private_key, curve, pairs, j + 1, plain_text \o message.text)

\* lines 204-213: the pairs from the j-th on, appended to plain_text
decrypt_loop(private_key, curve, pairs, j, plain_text) ==
    IF j > Len(pairs) THEN [text |-> plain_text]
    ELSE decrypt_push(decode(decrypt_pair(pairs[j], private_key, curve)),
                      private_key, curve, pairs, j, plain_text)

decrypt(private_key, curve, cipher_text) ==
    decrypt_loop(private_key, curve, cipher_text.pairs, 1, <<>>)

\* lines 155-166
\* lines 168-176: the accessors
ElGamal_curve(self) == self.curve

ElGamal_public_key(self) == self.public_key

ElGamal_private_key(self) == self.private_key

\* lines 55-57
EllipticCurve_init_point(curve) == curve.init_point

\* a plausible slip: the public key is the base point, without the pow
ElGamal_new_custom_without_pow(curve, private_key) ==
    [curve |-> curve,
     private_key |-> private_key,
     public_key |-> EllipticType_clone(curve.init_point)]

\* lines 155-166; private_key is what rng.gen_biguint_range returns
ElGamal_new_custom(curve, private_key) ==
    [curve |-> curve,
     private_key |-> private_key,
     public_key |-> EllipticType_pow(curve.init_point, private_key, curve)]

(***************************************************************************)
(* The ModNum harness: mn holds the last call, its receiver `self`, its    *)
(* argument and its result.  The receiver of a call is the ModNum the      *)
(* previous call returned, so only values the code builds are used.        *)
(***************************************************************************)
MnIdle == [op |-> "idle", self |-> Fail("none"), arg |-> Fail("none"), res |-> Fail("none")]

SqIdle == [pc |-> "idle"]

EgIdle == [pc |-> "idle"]

EnIdle == [pc |-> "idle"]

BlIdle == [pc |-> "idle"]

GpIdle == [pc |-> "idle"]

\* the ModNum values a caller can build with ModNum::new
Operands == {ModNum_new(v, f) : v \in 0..MaxValue, f \in 1..MaxField}

MnCall(op, self, arg, res) ==
    mn' = [op |-> op, self |-> self, arg |-> arg, res |-> res]

ModNew ==
    /\ \E value \in 0..MaxValue, field \in 0..MaxField :
          MnCall("new", Fail("none"), [value |-> value, field |-> field],
                 ModNum_new(value, field))
    /\ UNCHANGED <<sq, eg, en, bl, gp>>

ModAdd ==
    /\ IsModNum(mn.res)
    /\ \E other \in Operands : MnCall("add", mn.res, other, ModNum_add(mn.res, other))
    /\ UNCHANGED <<sq, eg, en, bl, gp>>

ModMul ==
    /\ IsModNum(mn.res)
    /\ \E other \in Operands : MnCall("mul", mn.res, other, ModNum_mul(mn.res, other))
    /\ UNCHANGED <<sq, eg, en, bl, gp>>

ModAddInv ==
    /\ IsModNum(mn.res)
    /\ MnCall("add_inv", mn.res, Fail("none"), ModNum_add_inv(mn.res))
    /\ UNCHANGED <<sq, eg, en, bl, gp>>

ModMulInv ==
    /\ IsModNum(mn.res)
    /\ MnCall("mul_inv", mn.res, Fail("none"), ModNum_mul_inv(mn.res))
    /\ UNCHANGED <<sq, eg, en, bl, gp>>

ModPow ==
    /\ IsModNum(mn.res)
    /\ \E exp \in 0..MaxExp :
          MnCall("pow", mn.res, [exp |-> exp], ModNum_pow(mn.res, exp))
    /\ UNCHANGED <<sq, eg, en, bl, gp>>

ModSqrt ==
    /\ IsModNum(mn.res)
    /\ MnCall("sqrt", mn.res, Fail("none"), ModNum_sqrt(mn.res))
    /\ UNCHANGED <<sq, eg, en, bl, gp>>

ModClone ==
    /\ IsModNum(mn.res)
    /\ MnCall("clone", mn.res, Fail("none"), ModNum_clone(mn.res))
    /\ UNCHANGED <<sq, eg, en, bl, gp>>

InitModNum ==
    /\ mn = MnIdle /\ sq = SqIdle /\ eg = EgIdle /\ en = EnIdle /\ bl = BlIdle
    /\ gp = GpIdle

NextModNum ==
    \/ ModNew
    \/ ModAdd
    \/ ModMul
    \/ ModAddInv
    \/ ModMulInv
    \/ ModPow
    \/ ModSqrt
    \/ ModClone

SpecModNum == InitModNum /\ [][NextModNum]_vars

(***************************************************************************)
(* The sqrt machine: sq is the state of one call of ModNum::sqrt on an     *)
(* element of a field.  The counters e and n grow without a limit in the   *)
(* code; the model counts e up to MaxE and stops n at MaxN.                *)
(***************************************************************************)
SqrtFields == (1..MaxSqrtField) \cup {56}

SqrtStart ==
    /\ sq.pc = "start"
    /\ sq' = sqrt_start(sq)
    /\ UNCHANGED <<mn, eg, en, bl, gp>>

SqrtFactor ==
    /\ sq.pc = "factor"
    /\ sq' = sqrt_factor(sq)
    /\ UNCHANGED <<mn, eg, en, bl, gp>>

\* e counts the turns of the loop; the model counts them up to MaxE
SqrtFactorBody ==
    /\ sq.pc = "factor_body"
    /\ sq' = [sqrt_factor_body(sq) EXCEPT !.e = IF @ > MaxE THEN MaxE ELSE @]
    /\ UNCHANGED <<mn, eg, en, bl, gp>>

SqrtFindN ==
    /\ sq.pc = "find_n"
    /\ sq.n < MaxN
    /\ sq' = sqrt_find_n(sq)
    /\ UNCHANGED <<mn, eg, en, bl, gp>>

SqrtOuter ==
    /\ sq.pc = "outer"
    /\ sq' = sqrt_outer(sq)
    /\ UNCHANGED <<mn, eg, en, bl, gp>>

SqrtInner ==
    /\ sq.pc = "inner"
    /\ sq' = sqrt_inner(sq)
    /\ UNCHANGED <<mn, eg, en, bl, gp>>

InitSqrt ==
    /\ mn = MnIdle /\ eg = EgIdle /\ en = EnIdle /\ bl = BlIdle /\ gp = GpIdle
    /\ \E field \in SqrtFields : \E value \in 0..(field - 1) :
          sq = sqrt_enter(ModNum_new(value, field))

NextSqrt ==
    \/ SqrtStart
    \/ SqrtFactor
    \/ SqrtFactorBody
    \/ SqrtFindN
    \/ SqrtOuter
    \/ SqrtInner

SpecSqrt == InitSqrt /\ [][NextSqrt]_vars

\* the call runs on: a step is taken whenever one can be
SpecSqrtFair == SpecSqrt /\ WF_vars(NextSqrt)

(***************************************************************************)
(* The ElGamal harness: eg follows one use of the library as in main.rs,   *)
(* ElGamal::new(Curves::Custom(curve)), then encrypt with the public key,  *)
(* then decrypt with a private key.  The random draws of the code (the     *)
(* private key, the scalar s of every chunk) are choices of the actions.   *)
(***************************************************************************)
\* a custom curve y^2 = x^3 + a*x + b over `field` with base point (gx, gy)
Curve(field, a, b, gx, gy) ==
    EllipticCurve_new(ModNum_new(a, field), ModNum_new(b, field),
                      Point_new(ModNum_new(gx, field), ModNum_new(gy, field),
                                ModNum_new(a, field), ModNum_new(b, field)))

\* prime fields = 3 mod 4: 65539 (one-byte chunks; the base point has the
\* prime order 65423), 8388619 (two-byte chunks), and 11 (below 256^2 + 1)
TestCurves ==
    {Curve(65539, 1, 4, 1, 27168), Curve(8388619, 1, 1, 2, 769062), Curve(11, 1, 6, 2, 4)}

\* private keys that rng.gen_biguint_range(0, field) can return; 65428 is
\* 5 + 65423
PrivateKeys == {0, 1, 5, 65428}

KeySamples(curve) == {k \in PrivateKeys : k < EllipticCurve_field(curve)}

\* scalars that rng.gen_biguint_range(field / (2 * W), field / W) can return:
\* the two ends of the range
ScalarSamples(curve) ==
    LET lo == EllipticCurve_field(curve) \div (2 * W)
        hi == EllipticCurve_field(curve) \div W
    IN  {s \in {lo, hi - 1} : lo <= s /\ s < hi}

\* plaintexts as UTF-8 bytes: "", "A", "Az", "e-acute", "A e-acute", "A NUL"
Texts == {<<>>, <<65>>, <<65, 122>>, <<195, 169>>, <<65, 195, 169>>, <<65, 0>>}

\* the number of chunks that split makes of a text
NumChunks(text, curve) ==
    IF chunk_size(curve) = 0 THEN 0
    ELSE (Len(text) + chunk_size(curve) - 1) \div chunk_size(curve)

ElGamalNew ==
    /\ eg.pc = "idle"
    /\ \E curve \in TestCurves : \E private_key \in KeySamples(curve) :
          eg' = [pc |-> "keyed", el_gamal |-> ElGamal_new_custom(curve, private_key)]
    /\ UNCHANGED <<mn, sq, en, bl, gp>>

Encrypt ==
    /\ eg.pc = "keyed"
    /\ \E plain_text \in Texts :
          \E ss \in [1..NumChunks(plain_text, eg.el_gamal.curve) ->
                         ScalarSamples(eg.el_gamal.curve)] :
             eg' = [pc |-> "encrypted", el_gamal |-> eg.el_gamal,
                    plain_text |-> plain_text,
                    cipher_text |-> encrypt(eg.el_gamal.public_key, eg.el_gamal.curve,
                                            plain_text, ss)]
    /\ UNCHANGED <<mn, sq, en, bl, gp>>

\* decrypt gets a ciphertext that encrypt returned
Decrypt ==
    /\ eg.pc = "encrypted"
    /\ ~IsFail(eg.cipher_text)
    /\ \E private_key \in KeySamples(eg.el_gamal.curve) :
          eg' = [pc |-> "decrypted", el_gamal |-> eg.el_gamal,
                 plain_text |-> eg.plain_text, cipher_text |-> eg.cipher_text,
                 dec_key |-> private_key,
                 message |-> decrypt(private_key, eg.el_gamal.curve, eg.cipher_text)]
    /\ UNCHANGED <<mn, sq, en, bl, gp>>

Init ==
    /\ mn = MnIdle /\ sq = SqIdle /\ eg = EgIdle /\ en = EnIdle /\ bl = BlIdle
    /\ gp = GpIdle

Next == ElGamalNew \/ Encrypt \/ Decrypt

Spec == Init /\ [][Next]_vars

(***************************************************************************)
(* The encode harness: en is one call of encrypt's encode on a chunk of a  *)
(* text, one step per turn of its loop.                                    *)
(***************************************************************************)
\* the curves of the ElGamal harness, and one over the composite 65555 =
\* 5 * 7 * 1873, where few x have a y
EncodeCurves == TestCurves \cup {Curve(65555, 1, 9944, 16896, 1)}

\* lines 262-266, 223: encrypt calls encode on a chunk that split returned
EncodeStart ==
    /\ en.pc = "idle"
    /\ \E curve \in EncodeCurves : \E plain_text \in Texts :
          /\ chunk_size(curve) > 0
          /\ \E j \in 1..NumChunks(plain_text, curve) :
                en' = [pc |-> "loop", curve |-> curve,
                       text |-> split(plain_text, chunk_size(curve))[j],
                       counter |-> 0, point |-> Fail("none")]
    /\ UNCHANGED <<mn, sq, eg, bl, gp>>

EncodeTurn ==
    /\ en.pc = "loop"
    /\ en' = encode_turn(en)
    /\ UNCHANGED <<mn, sq, eg, bl, gp>>

NextEncode == EncodeStart \/ EncodeTurn

SpecEncode == Init /\ [][NextEncode]_vars

(***************************************************************************)
(* The blinding harness: bl is the pair (c_0, c_1) that encrypt makes of   *)
(* one message point under the public key of a private key, and the point  *)
(* that decrypt makes of the pair with that private key.                   *)
(***************************************************************************)
\* y^2 = x^3 + x + 9 over the prime 1031: a cyclic group of 1026 points that
\* the base point (1, 140) generates, (775, 0) is its point of order 2;
\* y^2 = x^3 + 3x + 16 over the prime 1289: 1280 points, three of order 2
\* ((308, 0) is one), the base point (0, 4) has the order 80
BlindCurves == {Curve(1031, 1, 9, 1, 140), Curve(1289, 3, 16, 0, 4)}

\* the x of the message points
MsgXs == {0, 308, 775}

\* the points of the curves with these x
MsgPoints ==
    {point \in UNION {{Point_new(ModNum_new(x, EllipticCurve_field(curve)),
                                 ModNum_new(y, EllipticCurve_field(curve)),
                                 curve.a, curve.b) :
                           x \in MsgXs, y \in 0..(EllipticCurve_field(curve) - 1)} :
                      curve \in BlindCurves} : IsPoint(point)}

\* every scalar that rng.gen_biguint_range(field / (2 * W), field / W) returns
Scalars(curve) ==
    (EllipticCurve_field(curve) \div (2 * W))..(EllipticCurve_field(curve) \div W - 1)

\* lines 155-166: a private key in [0, field) and its public key
BlindKey ==
    /\ bl.pc = "idle"
    /\ \E curve \in BlindCurves : \E private_key \in 0..(EllipticCurve_field(curve) - 1) :
          bl' = [pc |-> "keyed", el_gamal |-> ElGamal_new_custom(curve, private_key)]
    /\ UNCHANGED <<mn, sq, eg, en, gp>>

\* lines 271-283: the pair of a message point
BlindPair ==
    /\ bl.pc = "keyed"
    /\ \E point \in MsgPoints : \E s \in Scalars(bl.el_gamal.curve) :
          /\ EllipticType_field(point) = EllipticCurve_field(bl.el_gamal.curve)
          /\ bl' = [pc |-> "paired", el_gamal |-> bl.el_gamal, point |-> point,
                    s |-> s,
                    pair |-> encrypt_point(point, s, bl.el_gamal.public_key,
                                           bl.el_gamal.curve)]
    /\ UNCHANGED <<mn, sq, eg, en, gp>>

\* line 209: the point that decrypt makes of the pair
BlindRecover ==
    /\ bl.pc = "paired"
    /\ bl' = [pc |-> "recovered", el_gamal |-> bl.el_gamal, point |-> bl.point,
              s |-> bl.s, pair |-> bl.pair,
              m |-> decrypt_pair(bl.pair, bl.el_gamal.private_key, bl.el_gamal.curve)]
    /\ UNCHANGED <<mn, sq, eg, en, gp>>

NextBlind == BlindKey \/ BlindPair \/ BlindRecover

SpecBlind == Init /\ [][NextBlind]_vars

(***************************************************************************)
(* The group-law harness: gp is one use of the point operations.  The      *)
(* caller builds a curve with EllipticCurve::new and one, two or three     *)
(* operands with Point::new and Inf::new, then calls group_op, group_inv   *)
(* or pow on them.                                                         *)
(***************************************************************************)
\* the prime fields up to MaxGroupField
GroupFields == {f \in 2..MaxGroupField : \A d \in 2..(f - 1) : f % d # 0}

\* every curve y^2 = x^3 + a*x + b over these fields; EllipticCurve::new
\* takes any a and b, and Infinity as the initial point
GroupCurves ==
    UNION {{EllipticCurve_new(ModNum_new(a, f), ModNum_new(b, f), Inf_new(f)) :
                a \in 0..(f - 1), b \in 0..(f - 1)} : f \in GroupFields}

\* the values Point::new and Inf::new make for a curve: its points, Infinity
PointsOf(curve) ==
    LET f == EllipticCurve_field(curve)
    IN  {Inf_new(f)} \cup
        {p \in {Point_new(ModNum_new(x, f), ModNum_new(y, f), curve.a, curve.b) :
                    x \in 0..(f - 1), y \in 0..(f - 1)} : IsPoint(p)}

\* operands of another field: its Infinity, and (0, 1) on y^2 = x^3 + 1
Strangers(curve) ==
    LET g == IF EllipticCurve_field(curve) = 5 THEN 7 ELSE 5
    IN  {Inf_new(g),
         Point_new(ModNum_new(0, g), ModNum_new(1, g), ModNum_new(0, g), ModNum_new(1, g))}

\* a curve and the first operand, of the curve's field or of another
GroupNew ==
    /\ gp.pc = "idle"
    /\ \E curve \in GroupCurves : \E P \in PointsOf(curve) \cup Strangers(curve) :
          gp' = [pc |-> "one", curve |-> curve, P |-> P]
    /\ UNCHANGED <<mn, sq, eg, en, bl>>

\* the second operand, of the curve's field or of another
GroupSecond ==
    /\ gp.pc = "one"
    /\ \E Q \in PointsOf(gp.curve) \cup Strangers(gp.curve) :
          gp' = [pc |-> "two", curve |-> gp.curve, P |-> gp.P, Q |-> Q]
    /\ UNCHANGED <<mn, sq, eg, en, bl>>

\* a third operand for two operands of the curve
GroupThird ==
    /\ gp.pc = "two"
    /\ gp.P \in PointsOf(gp.curve) /\ gp.Q \in PointsOf(gp.curve)
    /\ \E R \in PointsOf(gp.curve) :
          gp' = [pc |-> "three", curve |-> gp.curve, P |-> gp.P, Q |-> gp.Q, R |-> R]
    /\ UNCHANGED <<mn, sq, eg, en, bl>>

\* P.group_op(&Q, &curve)
GroupOp ==
    /\ gp.pc = "two"
    /\ gp' = [pc |-> "op", curve |-> gp.curve, self |-> gp.P, other |-> gp.Q,
              res |-> group_op(gp.P, gp.Q, gp.curve)]
    /\ UNCHANGED <<mn, sq, eg, en, bl>>

\* P.group_op(&Q, &curve).group_op(&R, &curve) and
\* P.group_op(&Q.group_op(&R, &curve), &curve)
GroupOpTwice ==
    /\ gp.pc = "three"
    /\ gp' = [pc |-> "assoc", curve |-> gp.curve, P |-> gp.P, Q |-> gp.Q, R |-> gp.R,
              left |-> group_op(group_op(gp.P, gp.Q, gp.curve), gp.R, gp.curve),
              right |-> group_op(gp.P, group_op(gp.Q, gp.R, gp.curve), gp.curve)]
    /\ UNCHANGED <<mn, sq, eg, en, bl>>

\* P.group_inv(), then P.group_op(&P.group_inv(), &curve)
GroupInv ==
    /\ gp.pc = "one"
    /\ gp' = [pc |-> "inv", curve |-> gp.curve, self |-> gp.P,
              res |-> group_inv(gp.P),
              sum |-> group_op(gp.P, group_inv(gp.P), gp.curve)]
    /\ UNCHANGED <<mn, sq, eg, en, bl>>

\* P.pow(&exp, &curve), then .pow(&1, &curve) of the result
GroupPow ==
    /\ gp.pc = "one"
    /\ \E exp \in 0..MaxK :
          gp' = [pc |-> "pow", curve |-> gp.curve, self |-> gp.P, exp |-> exp,
                 res |-> EllipticType_pow(gp.P, exp, gp.curve),
                 again |-> EllipticType_pow(EllipticType_pow(gp.P, exp, gp.curve), 1,
                                            gp.curve)]
    /\ UNCHANGED <<mn, sq, eg, en, bl>>

NextGroup ==
    \/ GroupNew
    \/ GroupSecond
    \/ GroupThird
    \/ GroupOp
    \/ GroupOpTwice
    \/ GroupInv
    \/ GroupPow

SpecGroup == Init /\ [][NextGroup]_vars

(***************************************************************************)
(* Helpers of the properties.                                              *)
(***************************************************************************)
IsPrime(n) == n > 1 /\ \A d \in 2..(n - 1) : n % d # 0

\* a is the square of an element of the field
IsResidue(a, field) == \E r \in 0..(field - 1) : (r * r) % field = a

\* the invariant of the data model
ValidModNum(r) == IsModNum(r) /\ r.field > 0 /\ 0 <= r.value /\ r.value < r.field

RECURSIVE Gcd(_, _)
Gcd(a, b) == IF b = 0 THEN a ELSE Gcd(b, a % b)

\* k copies of P combined with group_op, from Infinity on
RECURSIVE repeated_group_op(_, _, _)
repeated_group_op(P, k, curve) ==
    IF k = 0 THEN Inf_new(EllipticType_field(P))
    ELSE group_op(repeated_group_op(P, k - 1, curve), P, curve)

(***************************************************************************)
(* Properties of ModNum, under SpecModNum.                                 *)
(***************************************************************************)
\* C5: every ModNum that a public operation returns (mul_inv only on a value
\* coprime to the field) has field > 0 and 0 <= value < field, for every
\* field > 0, field 1 included.
C5_ReturnedModNumIsValid ==
    (/\ IsModNum(mn.res)
     /\ mn.op = "mul_inv" => Gcd(mn.self.value, mn.self.field) = 1)
    => ValidModNum(mn.res)

\* C7: in a prime field, sqrt of a quadratic residue a returns a root
\* (sqrt(a).pow(2) == a) and sqrt of a non-residue returns the value 0.
C7_SqrtOfResidueIsRoot ==
    (mn.op = "sqrt" /\ IsPrime(mn.self.field) /\ ValidModNum(mn.self))
    => /\ IsModNum(mn.res)
       /\ IF IsResidue(mn.self.value, mn.self.field)
          THEN ModNum_pow(mn.res, 2) = mn.self
          ELSE mn.res.value = 0

\* C10: in a prime field, mul_inv of a nonzero element a returns x with
\* 0 <= x < field and a.mul(x) == 1.
C10_MulInvIsInverse ==
    (/\ mn.op = "mul_inv"
     /\ IsPrime(mn.self.field)
     /\ ValidModNum(mn.self)
     /\ mn.self.value # 0)
    => /\ ValidModNum(mn.res)
       /\ mn.res.field = mn.self.field
       /\ ModNum_mul(mn.self, mn.res) = ModNum_new(1, mn.self.field)

\* mul_inv has been called on 7 in the field 13 and has returned 2
C10_Witness ==
    /\ mn.op = "mul_inv"
    /\ mn.self = [value |-> 7, field |-> 13]
    /\ mn.res = [value |-> 2, field |-> 13]

\* e copies of a combined with mul, from the field element 1 on
RECURSIVE repeated_mul(_, _)
repeated_mul(a, e) ==
    IF e = 0 THEN ModNum_new(1, a.field) ELSE ModNum_mul(repeated_mul(a, e - 1), a)

\* C14: for every field element a and every exponent e >= 0, pow(a, e) is the
\* product of e copies of a reduced modulo the field (iterated mul), and
\* pow(a, 0) is the field element 1.
C14_PowIsRepeatedMul ==
    (mn.op = "pow" /\ ValidModNum(mn.self))
    => mn.res = repeated_mul(mn.self, mn.arg.exp)

\* in every field of two elements or more pow is the iterated mul
PowIsRepeatedMulFromFieldTwo ==
    (mn.op = "pow" /\ ValidModNum(mn.self) /\ mn.self.field >= 2)
    => mn.res = repeated_mul(mn.self, mn.arg.exp)

(***************************************************************************)
(* Properties of ElGamal::new, encrypt and decrypt, under Spec.            *)
(***************************************************************************)
\* no chunk of the text is reduced modulo the field by encode, whatever the
\* counter: W * (m + 1) <= field
ChunksFit(text, curve) ==
    /\ chunk_size(curve) > 0
    /\ \A j \in 1..NumChunks(text, curve) :
          W * (split(text, chunk_size(curve))[j] + 1) <= EllipticCurve_field(curve)

\* C1: decrypting with the pair's own private key what encrypt made of a
\* plaintext under the pair's public key returns the plaintext, whatever the
\* length of the text and the scalars drawn for the chunks (looked at for
\* the texts whose chunks encode does not reduce modulo the field).
C1_RoundTrip ==
    (/\ eg.pc = "decrypted"
     /\ eg.dec_key = eg.el_gamal.private_key
     /\ ChunksFit(eg.plain_text, eg.el_gamal.curve))
    => eg.message = [text |-> eg.plain_text]

\* C3: ElGamal::new returns no ElGamal value (no private key, no public key)
\* for a custom curve whose field is at most 256^2 + 1.
C3_SmallFieldRejected ==
    eg.pc # "idle" => EllipticCurve_field(eg.el_gamal.curve) > W * W + 1

\* C4: decrypting with a private key k' the ciphertext of a (non-empty) text
\* that was encrypted under the public key of another private key k fails or
\* returns another text, never the plaintext.
C4_OtherKeyNeverDecrypts ==
    (/\ eg.pc = "decrypted"
     /\ eg.dec_key # eg.el_gamal.private_key
     /\ eg.plain_text # <<>>)
    => eg.message # [text |-> eg.plain_text]

\* the two private keys 5 and 65428 of the curve over 65539 have one public key
SamePublicKey ==
    \A curve \in TestCurves :
        EllipticCurve_field(curve) = 65539 =>
            ElGamal_new_custom(curve, 5).public_key
                = ElGamal_new_custom(curve, 65428).public_key

\* the round trip does hold for the texts of one-byte characters without NUL
AsciiRoundTrip ==
    (/\ eg.pc = "decrypted"
     /\ eg.dec_key = eg.el_gamal.private_key
     /\ \A j \in DOMAIN eg.plain_text : 0 < eg.plain_text[j] /\ eg.plain_text[j] < 128)
    => eg.message = [text |-> eg.plain_text]

\* the largest private key whose public key is compared with the repeated
\* group_op of the base point
MaxFold == 5

OnCurve(point, curve) ==
    LET f == EllipticCurve_field(curve)
        x == point.x.value
        y == point.y.value
    IN  MulMod(y, y, f)
            = (MulMod(MulMod(x, x, f), x, f) + MulMod(curve.a.value, x, f)
                   + curve.b.value) % f

\* C8: the point that encode returns for a chunk m is on the curve and has
\* floor(x / W) = m, and encode returns only at a counter below W: if no
\* candidate W*m + counter with counter < W has a nonzero root it panics
\* (looked at for the chunks that fit the field with every counter,
\* W * (m + 1) <= field).
C8_EncodeKeepsChunk ==
    (/\ en.pc = "returned"
     /\ W * (en.text + 1) <= EllipticCurve_field(en.curve))
    => /\ OnCurve(en.point, en.curve)
       /\ en.point.x.value \div W = en.text
       /\ en.counter < W

\* C9: over a field above 256^2 + 1 a chunk m of at most n bytes has
\* W * m < field.
C9_ChunkBelowField ==
    (/\ en.pc # "idle"
     /\ EllipticCurve_field(en.curve) > W * W + 1)
    => W * en.text < EllipticCurve_field(en.curve)

\* the function encode is the result of the turns
EncodeOperatorAgrees ==
    en.pc \in {"returned", "panicked"} => en.point = encode(en.text, en.curve)

\* whenever encode returns, the point is on the curve
EncodeReturnsCurvePoint == en.pc = "returned" => OnCurve(en.point, en.curve)

(***************************************************************************)
(* Properties of the pair of a message point, under SpecBlind.             *)
(***************************************************************************)
\* C2: for a message point M of the curve, a private key k in [0, field)
\* with public key H = G^k and a scalar s in [field/(2W), field/W), the
\* point group_op(pow(group_inv(c_0), k), c_1) that decrypt makes of
\* c_0 = G^s, c_1 = group_op(H^s, M) is M, whatever s is.
C2_PairRecoversPoint == bl.pc = "recovered" => bl.m = bl.point

\* a pair whose c_1 is the identity (H^s is the inverse of M), recovered
C2_Witness ==
    /\ bl.pc = "recovered"
    /\ IsPoint(bl.el_gamal.public_key)
    /\ IsPoint(bl.pair.c_0)
    /\ IsInfinity(bl.pair.c_1)
    /\ bl.m = bl.point

\* a private key and the private key 80 above it have one public key on the
\* curve whose base point has the order 80
BlindKeysWrap ==
    (/\ bl.pc = "keyed"
     /\ EllipticCurve_field(bl.el_gamal.curve) = 1289
     /\ bl.el_gamal.private_key >= 80)
    => bl.el_gamal.public_key
           = ElGamal_new_custom(bl.el_gamal.curve, bl.el_gamal.private_key - 80).public_key

(***************************************************************************)
(* Properties of the sqrt machine, under SpecSqrt and SpecSqrtFair.        *)
(***************************************************************************)
\* C6: sqrt terminates for every element of every prime field: it returns a
\* field element or stops with the fatal error, and never loops forever.
C6_SqrtTerminates == IsPrime(sq.field) => <>SqrtDone(sq)

\* sqrt returns only from its first step (lines 163, 167, 173): the general
\* branch, lines 179-223, never returns a value
SqrtReturnsAtStart == [][sq'.pc = "returned" => sq.pc = "start"]_vars

\* the loop of lines 182-185 is left only before its first turn: the body
\* sets s to s.mod_floor(2), which is 0 for an even s, and 0 is even
FactorLoopStuck ==
    [][/\ sq.pc = "factor_body" => (sq'.pc = "factor" /\ sq'.s = 0)
       /\ (sq.pc = "factor" /\ sq.e > 1) => sq'.pc = "factor_body"]_vars

\* the machine and the operator ModNum_sqrt agree on what sqrt returns
SqrtOperatorAgrees ==
    LET self == [value |-> sq.value, field |-> sq.field]
    IN  /\ sq.pc = "returned" => ModNum_sqrt(self) = [value |-> sq.ret, field |-> sq.field]
        /\ sq.pc = "panicked" => ModNum_sqrt(self) = Fail("SubtractOverflow")
        /\ sq.pc \in {"factor", "factor_body", "find_n", "outer", "inner"}
              => IsFail(ModNum_sqrt(self))

(***************************************************************************)
(* Properties of the group law, under SpecGroup.                           *)
(***************************************************************************)
\* the curve has no singular point: the field is odd and 4a^3 + 27b^2 # 0
NonSingular(curve) ==
    LET f == EllipticCurve_field(curve)
        a == curve.a.value
        b == curve.b.value
    IN  f > 2 /\ (4 * a * a * a + 27 * b * b) % f # 0

\* C11: for three points P, Q, R of a curve over a small prime field, each a
\* finite point or Infinity, equal points and inverse points included,
\* group_op(group_op(P, Q), R) = group_op(P, group_op(Q, R)).
C11_GroupOpAssociative == gp.pc = "assoc" => gp.left = gp.right

\* on the curves without a singular point the two results are one point
AssociativeOnNonSingular ==
    (gp.pc = "assoc" /\ NonSingular(gp.curve))
    => (~IsFail(gp.left) /\ gp.left = gp.right)

\* the operand is of the field of the curve
OfCurve(point, curve) ==
    ~IsFail(point) /\ EllipticType_field(point) = EllipticCurve_field(curve)

\* C12: for every point P of a curve, Infinity, a point with y = 0 or a point
\* with y # 0, group_op(P, group_inv(P)) is Infinity of the same field.
C12_InverseSumIsInfinity ==
    (gp.pc = "inv" /\ OfCurve(gp.self, gp.curve))
    => gp.sum = Inf_new(EllipticCurve_field(gp.curve))

\* a point with y # 0 of a curve over 7 and its inverse, another point
C12_Witness ==
    /\ gp.pc = "inv"
    /\ IsPoint(gp.self) /\ gp.self.x.field = 7 /\ gp.self.y.value # 0
    /\ IsPoint(gp.res) /\ gp.res # gp.self
    /\ gp.sum = Inf_new(7)

\* reached: a point with y = 0, which is its own inverse
InverseOfOrderTwoPoint ==
    /\ gp.pc = "inv" /\ IsPoint(gp.self) /\ gp.self.y.value = 0 /\ gp.res = gp.self
    /\ OfCurve(gp.self, gp.curve)

\* C15: Infinity is a two-sided identity of group_op: for every point P of a
\* curve, finite or Infinity, group_op(P, Infinity) = P and
\* group_op(Infinity, P) = P.
C15_InfinityIsIdentity ==
    (/\ gp.pc = "op"
     /\ OfCurve(gp.self, gp.curve)
     /\ OfCurve(gp.other, gp.curve))
    => /\ IsInfinity(gp.other) => gp.res = gp.self
       /\ IsInfinity(gp.self) => gp.res = gp.other

\* Infinity on the left of a finite point of a curve over 5
C15_Witness ==
    /\ gp.pc = "op"
    /\ gp.self = Inf_new(5) /\ IsPoint(gp.other) /\ gp.other.x.field = 5
    /\ EllipticCurve_field(gp.curve) = 5
    /\ gp.res = gp.other

\* reached: Infinity on the right of a finite point
InfinityOnTheRight ==
    /\ gp.pc = "op" /\ IsPoint(gp.self) /\ IsInfinity(gp.other)
    /\ OfCurve(gp.self, gp.curve) /\ OfCurve(gp.other, gp.curve)
    /\ gp.res = gp.self

\* C13: for every point P of a curve and every exponent k >= 0, pow(P, k) is
\* the k-fold repeated group_op of P from Infinity on; pow(P, 0) = Infinity,
\* pow(P, 1) = P and pow(pow(P, k), 1) = pow(P, k).
C13_PowIsRepeatedGroupOp ==
    (gp.pc = "pow" /\ OfCurve(gp.self, gp.curve))
    => /\ gp.res = repeated_group_op(gp.self, gp.exp, gp.curve)
       /\ gp.exp = 0 => gp.res = Inf_new(EllipticCurve_field(gp.curve))
       /\ gp.exp = 1 => gp.res = gp.self
       /\ gp.again = gp.res

\* an odd exponent above the order of the point: 9 copies of a point of a
\* curve over 7 whose 4 copies are Infinity
C13_Witness ==
    /\ gp.pc = "pow" /\ gp.exp = 9
    /\ IsPoint(gp.self) /\ gp.self.x.field = 7 /\ gp.self.y.value # 0
    /\ IsInfinity(repeated_group_op(gp.self, 4, gp.curve))
    /\ gp.res = gp.self

\* C18: closure of the group law: on a curve over a prime field above 3, for
\* operands that are Infinity or satisfy y^2 = x^3 + a*x + b, the result of
\* group_op, of group_inv and of pow is Infinity of the same field or a point
\* that satisfies y^2 = x^3 + a*x + b again.
Closed(res, curve) ==
    \/ res = Inf_new(EllipticCurve_field(curve))
    \/ /\ IsPoint(res)
       /\ ValidModNum(res.x) /\ ValidModNum(res.y)
       /\ res.x.field = EllipticCurve_field(curve)
       /\ res.y.field = EllipticCurve_field(curve)
       /\ OnCurve(res, curve)

C18_GroupLawIsClosed ==
    /\ (/\ gp.pc = "op"
        /\ EllipticCurve_field(gp.curve) > 3
        /\ OfCurve(gp.self, gp.curve) /\ OfCurve(gp.other, gp.curve))
       => Closed(gp.res, gp.curve)
    /\ (/\ gp.pc \in {"inv", "pow"}
        /\ EllipticCurve_field(gp.curve) > 3
        /\ OfCurve(gp.self, gp.curve))
       => Closed(gp.res, gp.curve)

\* the double of a point of a curve over 7 with a # 0 is a finite point
C18_Witness ==
    /\ gp.pc = "op"
    /\ EllipticCurve_field(gp.curve) = 7 /\ gp.curve.a.value # 0
    /\ IsPoint(gp.self) /\ gp.self = gp.other
    /\ IsPoint(gp.res) /\ OnCurve(gp.res, gp.curve)

\* the same on the fields 2 and 3, and for both groupings of three operands
ClosedOnEveryField ==
    /\ (gp.pc = "op" /\ OfCurve(gp.self, gp.curve) /\ OfCurve(gp.other, gp.curve))
       => Closed(gp.res, gp.curve)
    /\ (gp.pc \in {"inv", "pow"} /\ OfCurve(gp.self, gp.curve))
       => Closed(gp.res, gp.curve)
    /\ gp.pc = "assoc" => (Closed(gp.left, gp.curve) /\ Closed(gp.right, gp.curve))

\* C17: an arithmetic operation (ModNum add, mul) or a group operation
\* (group_op, the pow of a point) whose operands, or whose curve, are of
\* different fields ends with the fatal FieldMismatch and returns no value,
\* Infinity operands and the exponents 0 and 1 included.
C17_MismatchFails ==
    /\ (mn.op \in {"add", "mul"} /\ mn.self.field # mn.arg.field)
       => mn.res = Fail("FieldMismatch")
    /\ (/\ gp.pc = "op"
        /\ \/ EllipticType_field(gp.self) # EllipticType_field(gp.other)
           \/ EllipticType_field(gp.self) # EllipticCurve_field(gp.curve))
       => gp.res = Fail("FieldMismatch")
    /\ (gp.pc = "pow" /\ EllipticType_field(gp.self) # EllipticCurve_field(gp.curve))
       => gp.res = Fail("FieldMismatch")

\* group_op fails for every mismatch, Infinity operands included, and pow
\* fails for a finite point and an exponent of 2 or more
MismatchFailsInGroupOp ==
    /\ (/\ gp.pc = "op"
        /\ \/ EllipticType_field(gp.self) # EllipticType_field(gp.other)
           \/ EllipticType_field(gp.self) # EllipticCurve_field(gp.curve))
       => gp.res = Fail("FieldMismatch")
    /\ (/\ gp.pc = "pow"
        /\ EllipticType_field(gp.self) # EllipticCurve_field(gp.curve)
        /\ IsPoint(gp.self) /\ gp.exp >= 2)
       => gp.res = Fail("FieldMismatch")

\* pow returns a value for a curve of another field when the exponent is 0
\* or 1 or the point is Infinity: lines 176-191 never look at the curve
PowIgnoresCurve ==
    (/\ gp.pc = "pow"
     /\ EllipticType_field(gp.self) # EllipticCurve_field(gp.curve)
     /\ IsInfinity(gp.self) \/ gp.exp < 2)
    => (~IsFail(gp.res) /\ EllipticType_field(gp.res) = EllipticType_field(gp.self))

\* add and mul fail for operands of different fields (under SpecModNum)
MismatchFailsInModNum ==
    (mn.op \in {"add", "mul"} /\ mn.self.field # mn.arg.field)
    => mn.res = Fail("FieldMismatch")

====
